---- MODULE Spec2Model ----
(***************************************************************************)
(* EcoView persistence layer: the EcoViewDatabase wrapper (an IndexedDB    *)
(* object store with a localStorage fallback), its page-load               *)
(* initialisation and the AnalysisLogger helpers.                          *)
(*                                                                         *)
(* A JavaScript object is a record [keys, v]: keys is the set of its own   *)
(* properties, v maps every field name to its value (a fixed filler for a  *)
(* property the object does not have).  Dates, timestamps and ids are      *)
(* integers; the ISO strings the code uses order the same way.  The        *)
(* IndexedDB engine is modelled at the granularity the code observes it:   *)
(* one success or error event per request.                                 *)
(***************************************************************************)
EXTENDS Integers, Sequences, FiniteSets, TLC

VARIABLES
    db,          \* EcoViewDatabase.db: "null" | "open" | "closed" (a closed connection)
    isSupported, \* EcoViewDatabase.isSupported
    req,         \* the pending IDBOpenDBRequest of init(): "none" | "open" | "blocked" | "upgraded" | "upgradeRejected"
    initPromise, \* the promise of the latest init() call: "none" | "pending" | "resolved" | "rejected"
    awaiting,    \* TRUE while the DOMContentLoaded handler awaits init()
    domLoaded,   \* DOMContentLoaded has fired
    loggerDb,    \* AnalysisLogger.db is attached
    idbExists,   \* the IndexedDB database exists on disk (no upgrade needed to open it)
    idb,         \* object store 'analyses': records in key order
    keyGen,      \* its auto-increment key generator
    ls,          \* localStorage['ecoview_historical_data']: [state, items]
    clock,       \* Date.now()
    nUpdates,    \* the number of updates stored so far
    last,        \* the latest call and what its caller received
    pending,     \* the add requests issued on the primary store and not yet settled, oldest first
    burst,       \* the stores when the page was ready, and the records created since
    nSlides,     \* slides.length of the landing page's carousel
    closures,    \* one [currentSlide, autoPlayInterval] per run of initNatureCarousel
    intervals,   \* the live setInterval timers: [handle, closure]
    handles,     \* the number of interval handles issued so far
    hover,       \* the pointer is over .carousel-container
    resizeTimer, \* the resize handler's 250 ms timeout is armed
    active,      \* the slides that carry the class 'active'
    shown        \* the latest carousel event and the update it made

dbVars == <<db, isSupported, req, initPromise, awaiting, domLoaded, loggerDb,
            idbExists, idb, keyGen, ls, clock, nUpdates, last>>

concVars == <<pending, burst>>

carouselVars == <<nSlides, closures, intervals, handles, hover, resizeTimer, active, shown>>

vars == <<dbVars, concVars, carouselVars>>

-----------------------------------------------------------------------------
(* Bounds *)

MaxRecs == 2
MaxTicks == 1
MaxUpdates == 1
T0 == 30

(* null for a numeric field *)
NullNum == -1

-----------------------------------------------------------------------------
(* JavaScript objects *)

Fields == {"id", "date", "type", "species", "confidence", "image", "metadata",
           "createdAt", "updatedAt"}

NoMeta == [undefined |-> TRUE]

Filler(f) ==
    CASE f \in {"id", "date", "confidence", "createdAt", "updatedAt"} -> NullNum - 1
      [] f = "metadata" -> NoMeta
      [] OTHER -> "undefined"

Obj(keys, vals) ==
    [keys |-> keys,
     v |-> [f \in Fields |-> IF f \in keys THEN vals[f] ELSE Filler(f)]]

EmptyObj == Obj({}, [f \in Fields |-> Filler(f)])

Has(o, f) == f \in o.keys

\* { ...a, ...b }
Spread(a, b) ==
    [keys |-> a.keys \cup b.keys,
     v |-> [f \in Fields |-> IF f \in b.keys THEN b.v[f] ELSE a.v[f]]]

\* { f: x }
Prop(f, x) ==
    [keys |-> {f}, v |-> [g \in Fields |-> IF g = f THEN x ELSE Filler(g)]]

\* x || null; 0 and the empty string stand for every falsy value
OrNullNum(x) == IF x = 0 THEN NullNum ELSE x
OrNullStr(x) == IF x = "" THEN "null" ELSE x

-----------------------------------------------------------------------------
(* Sequences *)

Range(s) == {s[i] : i \in 1..Len(s)}

Last(s) == s[Len(s)]

-----------------------------------------------------------------------------
(* Time *)

\* new Date().toISOString(): the clock reading itself
NowISO == clock

\* new Date().toISOString().split('T')[0]: the calendar day of the reading
TicksPerDay == 2
Today == clock \div TicksPerDay

\* { createdAt: new Date().toISOString(), updatedAt: new Date().toISOString() }
Stamps ==
    Obj({"createdAt", "updatedAt"},
        [f \in Fields |-> IF f \in {"createdAt", "updatedAt"} THEN NowISO ELSE Filler(f)])

-----------------------------------------------------------------------------
(* EcoViewDatabase.applyFilters and the date sort of getAnalyses *)

NoFilters == [startDate |-> 0, endDate |-> 0, type |-> "", species |-> "",
              minConfidence |-> 0]

\* the k-th if-statement of applyFilters, applied to filtered
filterStep(k, filtered, filters) ==
    CASE k = 1 -> IF filters.startDate # 0
                  THEN SelectSeq(filtered, LAMBDA a : a.v["date"] >= filters.startDate)
                  ELSE filtered
      [] k = 2 -> IF filters.endDate # 0
                  THEN SelectSeq(filtered, LAMBDA a : a.v["date"] <= filters.endDate)
                  ELSE filtered
      [] k = 3 -> IF filters.type # ""
                  THEN SelectSeq(filtered, LAMBDA a : a.v["type"] = filters.type)
                  ELSE filtered
      [] k = 4 -> IF filters.species # ""
                  THEN SelectSeq(filtered, LAMBDA a : a.v["species"] = filters.species)
                  ELSE filtered
      [] k = 5 -> IF filters.minConfidence # 0
                  THEN SelectSeq(filtered, LAMBDA a : a.v["confidence"] >= filters.minConfidence)
                  ELSE filtered

\* the if-statements of applyFilters taken in the given order
RECURSIVE applyInOrder(_, _, _)
applyInOrder(filtered, filters, order) ==
    IF order = <<>> THEN filtered
    ELSE applyInOrder(filterStep(Head(order), filtered, filters), filters, Tail(order))

\* an applyFilters whose type comparison is not guarded by  if (filters.type)
applyFilters_TypeUnguarded(analyses, filters) ==
    SelectSeq(applyInOrder(analyses, filters, <<1, 2, 4, 5>>),
              LAMBDA a : a.v["type"] = filters.type)

applyFilters(analyses, filters) ==
    LET f1 == IF filters.startDate # 0
              THEN SelectSeq(analyses, LAMBDA a : a.v["date"] >= filters.startDate)
              ELSE analyses
        f2 == IF filters.endDate # 0
              THEN SelectSeq(f1, LAMBDA a : a.v["date"] <= filters.endDate)
              ELSE f1
        f3 == IF filters.type # ""
              THEN SelectSeq(f2, LAMBDA a : a.v["type"] = filters.type)
              ELSE f2
        f4 == IF filters.species # ""
              THEN SelectSeq(f3, LAMBDA a : a.v["species"] = filters.species)
              ELSE f3
        f5 == IF filters.minConfidence # 0
              THEN SelectSeq(f4, LAMBDA a : a.v["confidence"] >= filters.minConfidence)
              ELSE f4
    IN  f5

\* a sort that puts a record before the earlier records of its date
RECURSIVE InsertByDate_TiesReversed(_, _)
InsertByDate_TiesReversed(sorted, a) ==
    IF sorted = <<>> THEN <<a>>
    ELSE IF Head(sorted).v["date"] > a.v["date"]
         THEN <<Head(sorted)>> \o InsertByDate_TiesReversed(Tail(sorted), a)
         ELSE <<a>> \o sorted

\* Array.prototype.sort with (a, b) => new Date(b.date) - new Date(a.date):
\* a stable sort, newest date first
RECURSIVE InsertByDate(_, _)
InsertByDate(sorted, a) ==
    IF sorted = <<>> THEN <<a>>
    ELSE IF Head(sorted).v["date"] >= a.v["date"]
         THEN <<Head(sorted)>> \o InsertByDate(Tail(sorted), a)
         ELSE <<a>> \o sorted

RECURSIVE SortByDateDesc(_)
SortByDateDesc(s) ==
    IF s = <<>> THEN <<>>
    ELSE InsertByDate(SortByDateDesc(SubSeq(s, 1, Len(s) - 1)), Last(s))

-----------------------------------------------------------------------------
(* The IndexedDB object store 'analyses': keyPath 'id', autoIncrement *)

IdbKeys(store) == {store[i].v["id"] : i \in 1..Len(store)}

\* the key store.add / store.put files a value under
KeyOf(value, gen) == IF Has(value, "id") THEN value.v["id"] ELSE gen

RECURSIVE InsertByKey(_, _)
InsertByKey(store, rec) ==
    IF store = <<>> THEN <<rec>>
    ELSE IF Head(store).v["id"] < rec.v["id"]
         THEN <<Head(store)>> \o InsertByKey(Tail(store), rec)
         ELSE IF Head(store).v["id"] = rec.v["id"]
              THEN <<rec>> \o Tail(store)
              ELSE <<rec>> \o store

\* store.put(value): the record is filed under its key, replacing any record there
IdbPut(store, gen, value) ==
    LET key == KeyOf(value, gen)
    IN  [store |-> InsertByKey(store, Spread(value, Prop("id", key))),
         gen |-> IF key >= gen THEN key + 1 ELSE gen,
         key |-> key]

\* store.get(id): the record or undefined
IdbHas(store, id) == id \in IdbKeys(store)
IdbGet(store, id) == CHOOSE r \in Range(store) : r.v["id"] = id

\* store.delete(id)
IdbDelete(store, id) == SelectSeq(store, LAMBDA r : r.v["id"] # id)

-----------------------------------------------------------------------------
(* localStorage['ecoview_historical_data'] *)

LsKey(state, items) == [state |-> state, items |-> items]

\* localStorage.getItem followed by  stored ? JSON.parse(stored) : []  throws when
\* the storage is unavailable or the payload is no JSON
LsReadable(store) == store.state \in {"absent", "ok"}
LsParse(store) == IF store.state = "ok" THEN store.items ELSE <<>>

\* the records written by sample seeding carry this image
SampleImage == "data:image/jpeg;base64,..."
IsSample(a) == a.v["image"] = SampleImage
Created(s) == Cardinality({i \in 1..Len(s) : ~IsSample(s[i])})

\* EcoViewDatabase.addAnalysisToLocalStorage(analysisData); setFails: setItem throws
addAnalysisToLocalStorage(store, analysisData, setFails) ==
    LET analysis == Spread(Spread(Prop("id", clock), analysisData), Stamps)
    IN  IF ~LsReadable(store) \/ setFails
        THEN [ok |-> FALSE, ls |-> store, id |-> 0, rec |-> EmptyObj]
        ELSE [ok |-> TRUE,
              ls |-> LsKey("ok", Append(LsParse(store), analysis)),
              id |-> analysis.v["id"],
              rec |-> analysis]

\* EcoViewDatabase.getAnalysesFromLocalStorage(filters)
getAnalysesFromLocalStorage(store, filters) ==
    IF ~LsReadable(store) THEN <<>>
    ELSE SortByDateDesc(applyFilters(LsParse(store), filters))

-----------------------------------------------------------------------------
(* What the caller of the latest call received *)

Ret(op, route, res, err, val, out) ==
    [op |-> op, route |-> route, res |-> res, err |-> err, val |-> val, out |-> out]

-----------------------------------------------------------------------------
(* The parts of the page a specification leaves aside *)

\* no request is in flight and no burst of creates is followed
NoBurst ==
    /\ pending = <<>>
    /\ burst = [idb |-> <<>>, ls |-> <<>>, issued |-> 0, made |-> <<>>]

\* the page has no carousel (initNatureCarousel returns at its guard)
NoCarousel ==
    /\ nSlides = 0
    /\ closures = <<>>
    /\ intervals = {}
    /\ handles = 0
    /\ hover = FALSE
    /\ resizeTimer = FALSE
    /\ active = {}
    /\ shown = [ev |-> "none", by |-> 0, from |-> 0, to |-> 0]

-----------------------------------------------------------------------------
(* Initial state: the page's scripts have run, DOMContentLoaded has not fired *)

Init ==
    /\ db = "null"
    /\ isSupported \in BOOLEAN          \* checkSupport()
    /\ req = "none"
    /\ initPromise = "none"
    /\ awaiting = FALSE
    /\ domLoaded = FALSE
    /\ loggerDb = FALSE
    /\ idbExists \in BOOLEAN
    /\ idb = <<>>
    /\ keyGen = 1
    /\ ls \in {LsKey("absent", <<>>), LsKey("corrupt", <<>>)}
    /\ clock = T0
    /\ nUpdates = 0
    /\ last = Ret("none", "none", "ok", "", 0, <<>>)
    /\ NoBurst
    /\ NoCarousel

Tick ==
    /\ clock < T0 + MaxTicks
    /\ clock' = clock + 1
    /\ UNCHANGED <<db, isSupported, req, initPromise, awaiting, domLoaded, loggerDb,
                   idbExists, idb, keyGen, ls, nUpdates, last>>

-----------------------------------------------------------------------------
(* Page-load initialisation *)

SampleRecord(n, date, type, species, confidence, metadata) ==
    Obj(Fields,
        [id |-> clock + n, date |-> date, type |-> type, species |-> species,
         confidence |-> confidence, image |-> SampleImage, metadata |-> metadata,
         createdAt |-> NowISO, updatedAt |-> NowISO])

sampleData ==
    << SampleRecord(0, 15, "species", "Oak", 85, [greenCover |-> 75, treeCount |-> 12]),
       SampleRecord(1, 14, "path", "null", NullNum, [pathLength |-> 150, efficiency |-> 92]),
       SampleRecord(2, 13, "species", "Pine", 92, [greenCover |-> 88, treeCount |-> 8]) >>

\* the catch block of the DOMContentLoaded handler: fallback mode, then sample
\* seeding when the key is empty (getItem throws when the storage is unavailable)
FallbackSetup ==
    /\ db' = "null"
    /\ isSupported' = FALSE
    /\ ls' = IF ls.state = "absent" THEN LsKey("ok", sampleData) ELSE ls

\* rejecting the promise of init(): the handler awaiting it runs its catch block
Reject ==
    /\ initPromise' = IF initPromise = "pending" THEN "rejected" ELSE initPromise
    /\ awaiting' = FALSE
    /\ IF initPromise = "pending" /\ awaiting
       THEN FallbackSetup
       ELSE UNCHANGED <<db, isSupported, ls>>

\* document 'DOMContentLoaded': the database handler calls init() and awaits it,
\* then the logger handler attaches window.ecoviewDB
DOMContentLoaded ==
    /\ ~domLoaded
    /\ domLoaded' = TRUE
    /\ loggerDb' = TRUE
    /\ \/ /\ ~isSupported                   \* init() throws 'IndexedDB not supported'
          /\ FallbackSetup
          /\ initPromise' = "rejected"
          /\ UNCHANGED <<req, awaiting>>
          /\ last' = Ret("init", "none", "error", "Unsupported", 0, <<>>)
       \/ /\ isSupported                    \* indexedDB.open(...)
          /\ req' = "open"
          /\ initPromise' = "pending"
          /\ awaiting' = TRUE
          /\ UNCHANGED <<db, isSupported, ls>>
          /\ last' = Ret("init", "none", "pending", "", 0, <<>>)
    /\ UNCHANGED <<idbExists, idb, keyGen, clock, nUpdates>>

\* a later, explicit call of window.ecoviewDB.init()
InitCall ==
    /\ domLoaded /\ req = "none"
    /\ \/ /\ ~isSupported
          /\ initPromise' = "rejected"
          /\ UNCHANGED req
          /\ last' = Ret("init", "none", "error", "Unsupported", 0, <<>>)
       \/ /\ isSupported
          /\ req' = "open"
          /\ initPromise' = "pending"
          /\ last' = Ret("init", "none", "pending", "", 0, <<>>)
    /\ awaiting' = FALSE
    /\ UNCHANGED <<db, isSupported, domLoaded, loggerDb, idbExists, idb, keyGen, ls, clock, nUpdates>>

\* request.onblocked: an upgrade is needed and another connection is open
OnBlocked ==
    /\ req = "open" /\ ~idbExists
    /\ req' = "blocked"
    /\ db' = IF db # "null" THEN "closed" ELSE db
    /\ last' = Ret("init", "none", "pending", "Blocked", 0, <<>>)
    /\ UNCHANGED <<isSupported, initPromise, awaiting, domLoaded, loggerDb,
                   idbExists, idb, keyGen, ls, clock, nUpdates>>

\* request.onupgradeneeded; throws: creating the structure throws, which the
\* handler catches and turns into reject(error)
OnUpgradeNeeded(throws) ==
    /\ req \in {"open", "blocked"} /\ ~idbExists
    /\ idbExists' = TRUE
    /\ IF throws
       THEN /\ req' = "upgradeRejected"
            /\ Reject
            /\ last' = Ret("init", "none", "error", "OpenError", 0, <<>>)
       ELSE /\ req' = "upgraded"
            /\ UNCHANGED <<db, isSupported, ls, initPromise, awaiting>>
            /\ last' = Ret("init", "none", "pending", "", 0, <<>>)
    /\ UNCHANGED <<domLoaded, loggerDb, idb, keyGen, clock, nUpdates>>

\* request.onsuccess
OnSuccess ==
    /\ \/ req \in {"upgraded", "upgradeRejected"}
       \/ req = "open" /\ idbExists
    /\ db' = "open"
    /\ initPromise' = IF initPromise = "pending" THEN "resolved" ELSE initPromise
    /\ awaiting' = FALSE
    /\ req' = "none"
    /\ last' = Ret("init", "none",
                   IF initPromise = "pending" THEN "ok" ELSE "error",
                   IF initPromise = "pending" THEN "" ELSE "OpenError", 0, <<>>)
    /\ UNCHANGED <<isSupported, domLoaded, loggerDb, idbExists, idb, keyGen, ls, clock, nUpdates>>

\* request.onerror
OnError ==
    /\ req # "none"
    /\ req' = "none"
    /\ Reject
    /\ idbExists' = IF req \in {"upgraded", "upgradeRejected"} THEN FALSE ELSE idbExists
    /\ last' = Ret("init", "none", "error", "OpenError", 0, <<>>)
    /\ UNCHANGED <<domLoaded, loggerDb, idb, keyGen, clock, nUpdates>>

-----------------------------------------------------------------------------
(* EcoViewDatabase: create and read *)

ctl == <<db, isSupported, req, initPromise, awaiting, domLoaded, loggerDb, idbExists>>

\* the bound on the records created in the two stores together (the key
\* generator counts those of the primary store, deleted ones included)
Room(n) == (keyGen - 1) + Created(LsParse(ls)) + n <= MaxRecs

\* an addAnalysis whose per-call fallback moves the primary records along
addAnalysis_MigratesOnFallback(st, analysisData, addFails, setFails) ==
    LET viaLs(data, route, from) ==
            LET r == addAnalysisToLocalStorage(
                         IF LsReadable(st.ls) THEN LsKey("ok", LsParse(st.ls) \o from)
                                              ELSE st.ls, data, setFails)
            IN  [route |-> route, ok |-> r.ok, err |-> IF r.ok THEN "" ELSE "FallbackError",
                 id |-> r.id, rec |-> r.rec,
                 idb |-> IF r.ok /\ from # <<>> THEN <<>> ELSE st.idb,
                 gen |-> st.gen, ls |-> r.ls]
        analysis == Spread(analysisData, Stamps)
        key == KeyOf(analysis, st.gen)
        put == IdbPut(st.idb, st.gen, analysis)
    IN  IF db = "null" THEN viaLs(analysisData, "fallback", <<>>)
        ELSE IF db = "closed"
        THEN [route |-> "primary", ok |-> FALSE, err |-> "PrimaryError", id |-> 0,
              rec |-> EmptyObj, idb |-> st.idb, gen |-> st.gen, ls |-> st.ls]
        ELSE IF addFails \/ IdbHas(st.idb, key)
        THEN viaLs(analysis, "percall", st.idb)
        ELSE [route |-> "primary", ok |-> TRUE, err |-> "", id |-> put.key,
              rec |-> IdbGet(put.store, put.key),
              idb |-> put.store, gen |-> put.gen, ls |-> st.ls]

\* EcoViewDatabase.addAnalysis(analysisData) on the stores st = [idb, gen, ls];
\* addFails: the add request ends in onerror for a reason of the engine's;
\* setFails: localStorage.setItem throws
addAnalysis(st, analysisData, addFails, setFails) ==
    LET viaLs(data, route) ==
            LET r == addAnalysisToLocalStorage(st.ls, data, setFails)
            IN  [route |-> route, ok |-> r.ok, err |-> IF r.ok THEN "" ELSE "FallbackError",
                 id |-> r.id, rec |-> r.rec, idb |-> st.idb, gen |-> st.gen, ls |-> r.ls]
        analysis == Spread(analysisData, Stamps)
        key == KeyOf(analysis, st.gen)
        put == IdbPut(st.idb, st.gen, analysis)
    IN  IF db = "null" THEN viaLs(analysisData, "fallback")
        ELSE IF db = "closed"        \* this.db.transaction throws
        THEN [route |-> "primary", ok |-> FALSE, err |-> "PrimaryError", id |-> 0,
              rec |-> EmptyObj, idb |-> st.idb, gen |-> st.gen, ls |-> st.ls]
        ELSE IF addFails \/ IdbHas(st.idb, key)
        THEN viaLs(analysis, "percall")
        ELSE [route |-> "primary", ok |-> TRUE, err |-> "", id |-> put.key,
              rec |-> IdbGet(put.store, put.key),
              idb |-> put.store, gen |-> put.gen, ls |-> st.ls]

Stores == [idb |-> idb, gen |-> keyGen, ls |-> ls]

\* a direct call of addAnalysis whose per-call fallback also drops the handle
AddAnalysis_DropsHandle(analysisData, addFails, setFails) ==
    LET r == addAnalysis(Stores, analysisData, addFails, setFails)
    IN  /\ Room(1)
        /\ idb' = r.idb /\ keyGen' = r.gen /\ ls' = r.ls
        /\ db' = IF r.route = "percall" THEN "null" ELSE db
        /\ last' = Ret("create", r.route, IF r.ok THEN "ok" ELSE "error", r.err, r.id,
                       IF r.ok THEN <<r.rec>> ELSE <<>>)
        /\ UNCHANGED <<isSupported, req, initPromise, awaiting, domLoaded, loggerDb,
                       idbExists, clock, nUpdates>>

\* a direct call of window.ecoviewDB.addAnalysis
AddAnalysis(analysisData, addFails, setFails) ==
    LET r == addAnalysis(Stores, analysisData, addFails, setFails)
    IN  /\ Room(1)
        /\ idb' = r.idb /\ keyGen' = r.gen /\ ls' = r.ls
        /\ last' = Ret("create", r.route, IF r.ok THEN "ok" ELSE "error", r.err, r.id,
                       IF r.ok THEN <<r.rec>> ELSE <<>>)
        /\ UNCHANGED <<ctl, clock, nUpdates>>

\* EcoViewDatabase.getAnalyses(filters); getFails: the getAll request ends in onerror
getAnalyses(st, filters, getFails) ==
    IF db = "null"
    THEN [route |-> "fallback", ok |-> TRUE, err |-> "",
          out |-> getAnalysesFromLocalStorage(st.ls, filters)]
    ELSE IF db = "closed"
    THEN [route |-> "primary", ok |-> FALSE, err |-> "PrimaryError", out |-> <<>>]
    ELSE IF getFails
    THEN [route |-> "percall", ok |-> TRUE, err |-> "",
          out |-> getAnalysesFromLocalStorage(st.ls, filters)]
    ELSE [route |-> "primary", ok |-> TRUE, err |-> "",
          out |-> SortByDateDesc(applyFilters(st.idb, filters))]

\* a direct call of window.ecoviewDB.getAnalyses; val is the filters object
GetAnalyses(filters, getFails) ==
    LET r == getAnalyses(Stores, filters, getFails)
    IN  /\ last' = Ret("getAll", r.route, IF r.ok THEN "ok" ELSE "error", r.err,
                       filters, r.out)
        /\ UNCHANGED <<ctl, idb, keyGen, ls, clock, nUpdates>>

-----------------------------------------------------------------------------
(* EcoViewDatabase: point operations.  Each begins with this.db.transaction(...), *)
(* which throws a TypeError when this.db is null.                                 *)

NoDb(op) == Ret(op, "none", "error",
                IF db = "null" THEN "TypeError" ELSE "PrimaryError", 0, <<>>)

\* EcoViewDatabase.getAnalysis(id): resolves with request.result, the record or
\* undefined; val is the id asked for
GetAnalysis(id, getFails) ==
    /\ last' = IF db # "open" THEN [NoDb("getById") EXCEPT !.val = id]
               ELSE IF getFails
               THEN Ret("getById", "primary", "error", "PrimaryError", id, <<>>)
               ELSE IF IdbHas(idb, id)
               THEN Ret("getById", "primary", "ok", "", id, <<IdbGet(idb, id)>>)
               ELSE Ret("getById", "primary", "ok", "undefined", id, <<>>)
    /\ UNCHANGED <<ctl, idb, keyGen, ls, clock, nUpdates>>

\* a put of the patch alone: { ...updateData, updatedAt: now }
updatedAnalysis_PatchOnly(analysis, updateData) ==
    Spread(updateData, Prop("updatedAt", NowISO))

\* the record updateAnalysis puts: { ...analysis, ...updateData, updatedAt: now }
updatedAnalysis(analysis, updateData) ==
    Spread(Spread(analysis, updateData), Prop("updatedAt", NowISO))

\* EcoViewDatabase.updateAnalysis(id, updateData); val is the id asked for
UpdateAnalysis(id, updateData, getFails, putFails) ==
    LET merged == updatedAnalysis(IdbGet(idb, id), updateData)
        put == IdbPut(idb, keyGen, merged)
    IN  /\ nUpdates < MaxUpdates
        /\ IF db # "open"
           THEN /\ last' = [NoDb("update") EXCEPT !.val = id]
                /\ UNCHANGED <<idb, keyGen, nUpdates>>
           ELSE IF getFails
           THEN /\ last' = Ret("update", "primary", "error", "PrimaryError", id, <<>>)
                /\ UNCHANGED <<idb, keyGen, nUpdates>>
           ELSE IF ~IdbHas(idb, id)
           THEN /\ last' = Ret("update", "primary", "error", "NotFound", id, <<>>)
                /\ UNCHANGED <<idb, keyGen, nUpdates>>
           ELSE IF putFails
           THEN /\ last' = Ret("update", "primary", "error", "PrimaryError", id, <<>>)
                /\ UNCHANGED <<idb, keyGen, nUpdates>>
           ELSE /\ idb' = put.store
                /\ keyGen' = put.gen
                /\ nUpdates' = nUpdates + 1
                /\ last' = Ret("update", "primary", "ok", "", id, <<merged>>)
        /\ UNCHANGED <<ctl, ls, clock>>

\* EcoViewDatabase.deleteAnalysis(id)
DeleteAnalysis(id, delFails) ==
    /\ IF db # "open"
       THEN /\ last' = NoDb("delete")
            /\ UNCHANGED idb
       ELSE IF delFails
       THEN /\ last' = Ret("delete", "primary", "error", "PrimaryError", 0, <<>>)
            /\ UNCHANGED idb
       ELSE /\ idb' = IdbDelete(idb, id)
            /\ last' = Ret("delete", "primary", "ok", "", id, <<>>)
    /\ UNCHANGED <<ctl, keyGen, ls, clock, nUpdates>>

\* EcoViewDatabase.clearAllData()
ClearAllData(clearFails) ==
    /\ IF db # "open"
       THEN /\ last' = NoDb("clear")
            /\ UNCHANGED idb
       ELSE IF clearFails
       THEN /\ last' = Ret("clear", "primary", "error", "PrimaryError", 0, <<>>)
            /\ UNCHANGED idb
       ELSE /\ idb' = <<>>
            /\ last' = Ret("clear", "primary", "ok", "", 0, <<>>)
    /\ UNCHANGED <<ctl, keyGen, ls, clock, nUpdates>>

\* EcoViewDatabase.getStats(): totalRecords of the count request
GetStats(countFails) ==
    /\ last' = IF db # "open" THEN NoDb("stats")
               ELSE IF countFails
               THEN Ret("stats", "primary", "error", "PrimaryError", 0, <<>>)
               ELSE Ret("stats", "primary", "ok", "", Len(idb), <<>>)
    /\ UNCHANGED <<ctl, idb, keyGen, ls, clock, nUpdates>>

-----------------------------------------------------------------------------
(* EcoViewDatabase: analytics, export, import *)

\* a => a.species: the species is neither null, undefined nor empty
Truthy(sp) == sp \notin {"", "null", "undefined"}

\* Object.keys(speciesFreq): the species in the order of their first record
RECURSIVE speciesKeys(_)
speciesKeys(analyses) ==
    IF analyses = <<>> THEN <<>>
    ELSE LET front == speciesKeys(SubSeq(analyses, 1, Len(analyses) - 1))
             sp == Last(analyses).v["species"]
         IN  IF Truthy(sp) /\ sp \notin Range(front) THEN Append(front, sp) ELSE front

\* speciesFreq[sp] after the forEach
speciesFreq(analyses, sp) ==
    Cardinality({i \in 1..Len(analyses) : analyses[i].v["species"] = sp})

\* a reduce that keeps a on equal counts: speciesFreq[a] >= speciesFreq[b] ? a : b
RECURSIVE reduceSpecies_KeepsFirst(_, _, _)
reduceSpecies_KeepsFirst(analyses, keys, a) ==
    IF keys = <<>> THEN a
    ELSE LET b == Head(keys)
         IN  reduceSpecies_KeepsFirst(analyses, Tail(keys),
                 IF a # "null" /\ speciesFreq(analyses, a) >= speciesFreq(analyses, b)
                 THEN a ELSE b)

\* keys.reduce((a, b) => speciesFreq[a] > speciesFreq[b] ? a : b, null); the
\* comparison is false on the initial null, whose count is undefined
RECURSIVE reduceSpecies(_, _, _)
reduceSpecies(analyses, keys, a) ==
    IF keys = <<>> THEN a
    ELSE LET b == Head(keys)
         IN  reduceSpecies(analyses, Tail(keys),
                 IF a # "null" /\ speciesFreq(analyses, a) > speciesFreq(analyses, b)
                 THEN a ELSE b)

\* the forEach groupings: one key per value of field f, with its count
countBy(analyses, f) ==
    [x \in {analyses[i].v[f] : i \in 1..Len(analyses)} |->
        Cardinality({i \in 1..Len(analyses) : analyses[i].v[f] = x})]

RECURSIVE sumConfidence(_)
sumConfidence(s) ==
    IF s = <<>> THEN 0 ELSE s[1].v["confidence"] + sumConfidence(Tail(s))

\* the mean of the confidences that are neither null nor undefined, as the
\* fraction num/den; 0 when there is none
averageConfidence(analyses) ==
    LET speciesAnalyses ==
            SelectSeq(analyses, LAMBDA a : a.v["confidence"] \notin {NullNum, Filler("confidence")})
    IN  IF Len(speciesAnalyses) > 0
        THEN [num |-> sumConfidence(speciesAnalyses), den |-> Len(speciesAnalyses)]
        ELSE [num |-> 0, den |-> 1]

\* a speciesCount that counts the records with a species, not the species
speciesCount_PerRecord(analyses) ==
    Len(SelectSeq(analyses, LAMBDA a : Truthy(a.v["species"])))

\* new Set(analyses.filter(a => a.species).map(a => a.species)).size
speciesCount(analyses) ==
    Cardinality({analyses[i].v["species"] : i \in {j \in 1..Len(analyses) : Truthy(analyses[j].v["species"])}})

\* the analytics object getAnalytics builds from the getAnalyses() result
analyticsOf(analyses) ==
    [totalAnalyses |-> Len(analyses),
     speciesCount |-> speciesCount(analyses),
     averageConfidence |-> averageConfidence(analyses),
     mostCommonSpecies |-> reduceSpecies(analyses, speciesKeys(analyses), "null"),
     analysesByType |-> countBy(analyses, "type"),
     analysesByDate |-> countBy(analyses, "date"),
     recentAnalyses |-> SubSeq(analyses, 1, IF Len(analyses) < 10 THEN Len(analyses) ELSE 10)]

\* EcoViewDatabase.getAnalytics(): out holds the analytics object
GetAnalytics(getFails) ==
    LET r == getAnalyses(Stores, NoFilters, getFails)
    IN  /\ last' = Ret("analytics", r.route, IF r.ok THEN "ok" ELSE "error", r.err,
                       Len(r.out), IF r.ok THEN <<analyticsOf(r.out)>> ELSE <<>>)
        /\ UNCHANGED <<ctl, idb, keyGen, ls, clock, nUpdates>>

\* JSON.stringify(analyses, null, 2): a property whose value is undefined is left out
JSONstringify(analyses) ==
    [i \in 1..Len(analyses) |->
        [keys |-> {f \in analyses[i].keys : analyses[i].v[f] # Filler(f)},
         v |-> analyses[i].v]]

\* JSON.parse(data): the objects the text denotes
JSONparse(data) == data

csvHeaders == <<"ID", "Date", "Type", "Species", "Confidence", "Green Cover",
                "Tree Count", "Created At">>

\* a.metadata?.f
MetaProp(a, f) ==
    IF f \in DOMAIN a.v["metadata"] THEN a.v["metadata"][f] ELSE Filler("confidence")

\* a cell of a CSV line: the text join(',') puts between two commas
Cell(x) == [empty |-> FALSE, val |-> x]
EmptyNum == [empty |-> TRUE, val |-> 0]
EmptyStr == [empty |-> TRUE, val |-> ""]

\* join(',') of a bare value: null and undefined print as nothing
JoinNum(x) == IF x \in {NullNum, Filler("confidence")} THEN EmptyNum ELSE Cell(x)
JoinStr(x) == IF ~Truthy(x) THEN EmptyStr ELSE Cell(x)

\* x || '': every falsy value, 0 included, prints as nothing
OrEmptyNum(x) == IF x \in {0, NullNum, Filler("confidence")} THEN EmptyNum ELSE Cell(x)
OrEmptyStr(x) == IF ~Truthy(x) THEN EmptyStr ELSE Cell(x)

csvLine(a) ==
    << JoinNum(a.v["id"]), JoinNum(a.v["date"]), JoinStr(a.v["type"]),
       OrEmptyStr(a.v["species"]), OrEmptyNum(a.v["confidence"]),
       OrEmptyNum(MetaProp(a, "greenCover")), OrEmptyNum(MetaProp(a, "treeCount")),
       JoinNum(a.v["createdAt"]) >>

\* the csvContent of exportData('csv'): the header line, then one line per record
csvContent(analyses) ==
    [header |-> csvHeaders, lines |-> [i \in 1..Len(analyses) |-> csvLine(analyses[i])]]

\* EcoViewDatabase.exportData(format): val is the format, out the exported text
ExportData(format, getFails) ==
    LET r == getAnalyses(Stores, NoFilters, getFails)
    IN  /\ last' = Ret("export", r.route, IF r.ok THEN "ok" ELSE "error", r.err, format,
                       IF ~r.ok THEN <<>>
                       ELSE IF format = "csv" THEN <<csvContent(r.out)>>
                       ELSE JSONstringify(r.out))
        /\ UNCHANGED <<ctl, idb, keyGen, ls, clock, nUpdates>>

\* a loop that gives up at the first record whose addAnalysis throws
RECURSIVE importLoop_StopsAtFailure(_, _, _, _, _)
importLoop_StopsAtFailure(st, analyses, k, addFails, setFails) ==
    IF k > Len(analyses) THEN st
    ELSE LET r == addAnalysis(st, analyses[k], k \in addFails, k \in setFails)
         IN  IF ~r.ok THEN st
             ELSE importLoop_StopsAtFailure([idb |-> r.idb, gen |-> r.gen, ls |-> r.ls],
                                            analyses, k + 1, addFails, setFails)

\* the loop of importData: addAnalysis for each parsed record in turn, a failed
\* one skipped; addFails and setFails are the positions whose requests fail
RECURSIVE importLoop(_, _, _, _, _)
importLoop(st, analyses, k, addFails, setFails) ==
    IF k > Len(analyses) THEN st
    ELSE LET r == addAnalysis(st, analyses[k], k \in addFails, k \in setFails)
         IN  importLoop([idb |-> r.idb, gen |-> r.gen, ls |-> r.ls],
                        analyses, k + 1, addFails, setFails)

\* what the loop's try block saw for each parsed record: ok is FALSE when
\* addAnalysis threw and the catch logged it
RECURSIVE importResults(_, _, _, _, _)
importResults(st, analyses, k, addFails, setFails) ==
    IF k > Len(analyses) THEN <<>>
    ELSE LET r == addAnalysis(st, analyses[k], k \in addFails, k \in setFails)
         IN  <<[rec |-> analyses[k], ok |-> r.ok]>> \o
             importResults([idb |-> r.idb, gen |-> r.gen, ls |-> r.ls],
                           analyses, k + 1, addFails, setFails)

ImportRoom(analyses) ==
    (keyGen - 1) + Len(LsParse(ls)) + Len(analyses) <= MaxRecs

\* EcoViewDatabase.importData(data, 'json') with analyses = JSON.parse(data);
\* val is the count returned, out what became of each parsed record
ImportData(analyses, addFails, setFails) ==
    LET st == importLoop(Stores, analyses, 1, addFails, setFails)
    IN  /\ ImportRoom(analyses)
        /\ idb' = st.idb /\ keyGen' = st.gen /\ ls' = st.ls
        /\ last' = Ret("import", IF db = "null" THEN "fallback" ELSE "primary",
                       "ok", "", Len(analyses),
                       importResults(Stores, analyses, 1, addFails, setFails))
        /\ UNCHANGED <<ctl, clock, nUpdates>>

-----------------------------------------------------------------------------
(* AnalysisLogger *)

\* what the UI passes to a logger method; 0 and "" stand for a missing property
DataKeys == {"species", "confidence", "image", "greenCover", "treeCount",
             "boundingBoxes", "processingTime", "algorithm", "pathLength",
             "efficiency", "waypoints", "vegetationDensity"}

LogPayload(type, species, confidence, image, metadata) ==
    Obj({"date", "type", "species", "confidence", "image", "metadata"},
        [id |-> Filler("id"), date |-> Today, type |-> type, species |-> species,
         confidence |-> confidence, image |-> image, metadata |-> metadata,
         createdAt |-> Filler("createdAt"), updatedAt |-> Filler("updatedAt")])

speciesPayload(data) ==
    LogPayload("species", OrNullStr(data.species), OrNullNum(data.confidence),
               OrNullStr(data.image),
               [greenCover |-> OrNullNum(data.greenCover),
                treeCount |-> OrNullNum(data.treeCount),
                boundingBoxes |-> OrNullNum(data.boundingBoxes),
                processingTime |-> OrNullNum(data.processingTime)])

\* a tree-count payload that passes the caller's species on
treeCountPayload_KeepsSpecies(data) ==
    LogPayload("count", OrNullStr(data.species), OrNullNum(data.confidence),
               OrNullStr(data.image),
               [treeCount |-> data.treeCount,
                greenCover |-> OrNullNum(data.greenCover),
                processingTime |-> OrNullNum(data.processingTime),
                algorithm |-> IF data.algorithm = "" THEN "default" ELSE data.algorithm])

treeCountPayload(data) ==
    LogPayload("count", "null", OrNullNum(data.confidence), OrNullStr(data.image),
               [treeCount |-> data.treeCount,
                greenCover |-> OrNullNum(data.greenCover),
                processingTime |-> OrNullNum(data.processingTime),
                algorithm |-> IF data.algorithm = "" THEN "default" ELSE data.algorithm])

pathPayload(data) ==
    LogPayload("path", "null", OrNullNum(data.efficiency), OrNullStr(data.image),
               [pathLength |-> OrNullNum(data.pathLength),
                efficiency |-> OrNullNum(data.efficiency),
                waypoints |-> OrNullNum(data.waypoints),
                processingTime |-> OrNullNum(data.processingTime),
                algorithm |-> IF data.algorithm = "" THEN "default" ELSE data.algorithm])

greenCoverPayload(data) ==
    LogPayload("greencover", "null", OrNullNum(data.confidence), OrNullStr(data.image),
               [greenCover |-> OrNullNum(data.greenCover),
                vegetationDensity |-> OrNullNum(data.vegetationDensity),
                processingTime |-> OrNullNum(data.processingTime),
                algorithm |-> IF data.algorithm = "" THEN "default" ELSE data.algorithm])

genericPayload(type, data) ==
    LogPayload(type, OrNullStr(data.species), OrNullNum(data.confidence),
               OrNullStr(data.image), [empty |-> TRUE])

\* a logger tail whose catch block rethrows instead of returning false
Log_Rethrows(method, data, analysisData, addFails, setFails) ==
    LET r == addAnalysis(Stores, analysisData, addFails, setFails)
    IN  IF ~loggerDb
        THEN /\ last' = Ret(method, "none", "false", "", 0, <<>>)
             /\ UNCHANGED <<ctl, idb, keyGen, ls, clock, nUpdates>>
        ELSE /\ Room(1)
             /\ idb' = r.idb /\ keyGen' = r.gen /\ ls' = r.ls
             /\ last' = Ret(method, r.route, IF r.ok THEN "ok" ELSE "error", r.err, r.id,
                            IF r.ok THEN <<analysisData, data>> ELSE <<>>)
             /\ UNCHANGED <<ctl, clock, nUpdates>>

\* the shared shape of the logger methods: return false when no database is
\* attached; build analysisData from data; await addAnalysis and return the id,
\* or false from the catch block.  out holds analysisData and the data passed
Log(method, data, analysisData, addFails, setFails) ==
    LET r == addAnalysis(Stores, analysisData, addFails, setFails)
    IN  IF ~loggerDb
        THEN /\ last' = Ret(method, "none", "false", "", 0, <<>>)
             /\ UNCHANGED <<ctl, idb, keyGen, ls, clock, nUpdates>>
        ELSE /\ Room(1)
             /\ idb' = r.idb /\ keyGen' = r.gen /\ ls' = r.ls
             /\ last' = Ret(method, r.route, IF r.ok THEN "ok" ELSE "false", "", r.id,
                            IF r.ok THEN <<analysisData, data>> ELSE <<>>)
             /\ UNCHANGED <<ctl, clock, nUpdates>>

logSpeciesAnalysis(data, addFails, setFails) ==
    Log("logSpecies", data, speciesPayload(data), addFails, setFails)

logTreeCountAnalysis(data, addFails, setFails) ==
    Log("logTreeCount", data, treeCountPayload(data), addFails, setFails)

logPathAnalysis(data, addFails, setFails) ==
    Log("logPath", data, pathPayload(data), addFails, setFails)

logGreenCoverAnalysis(data, addFails, setFails) ==
    Log("logGreenCover", data, greenCoverPayload(data), addFails, setFails)

logAnalysis(type, data, addFails, setFails) ==
    Log("logAnalysis", data, genericPayload(type, data), addFails, setFails)

-----------------------------------------------------------------------------
(* Inputs *)

EmptyData == [k \in DataKeys |-> IF k \in {"species", "image", "algorithm"} THEN "" ELSE 0]

FullData ==
    [species |-> "Oak", confidence |-> 85, image |-> "img", greenCover |-> 75,
     treeCount |-> 12, boundingBoxes |-> 1, processingTime |-> 3, algorithm |-> "astar",
     pathLength |-> 150, efficiency |-> 92, waypoints |-> 4, vegetationDensity |-> 60]

LogData == {EmptyData, FullData}

Ids == 1..MaxRecs

Patches ==
    {Prop("confidence", 50), Prop("createdAt", T0 + MaxTicks + 1)} \cup {Prop("id", k) : k \in Ids}

FilterInputs == {NoFilters, [NoFilters EXCEPT !.type = "species"]}

\* what importData is given: the records of an export of the active store, or
\* two records of another installation's export
Exported == JSONparse(JSONstringify(getAnalyses(Stores, NoFilters, FALSE).out))

ForeignExport == <<speciesPayload(FullData), speciesPayload(EmptyData)>>

ImportInputs == {Exported, ForeignExport} \ {<<>>}

-----------------------------------------------------------------------------

Next ==
    \/ /\ Tick
       /\ UNCHANGED <<concVars, carouselVars>>
    \/ /\ DOMContentLoaded
       /\ UNCHANGED <<concVars, carouselVars>>
    \/ /\ InitCall
       /\ UNCHANGED <<concVars, carouselVars>>
    \/ /\ OnBlocked
       /\ UNCHANGED <<concVars, carouselVars>>
    \/ /\ \E throws \in BOOLEAN : OnUpgradeNeeded(throws)
       /\ UNCHANGED <<concVars, carouselVars>>
    \/ /\ OnSuccess
       /\ UNCHANGED <<concVars, carouselVars>>
    \/ /\ OnError
       /\ UNCHANGED <<concVars, carouselVars>>
    \/ /\ \E af, sf \in BOOLEAN : AddAnalysis(speciesPayload(FullData), af, sf)
       /\ UNCHANGED <<concVars, carouselVars>>
    \/ /\ \E f \in FilterInputs, gf \in BOOLEAN : GetAnalyses(f, gf)
       /\ UNCHANGED <<concVars, carouselVars>>
    \/ /\ \E id \in Ids, gf \in BOOLEAN : GetAnalysis(id, gf)
       /\ UNCHANGED <<concVars, carouselVars>>
    \/ /\ \E id \in Ids, u \in Patches, gf, pf \in BOOLEAN : UpdateAnalysis(id, u, gf, pf)
       /\ UNCHANGED <<concVars, carouselVars>>
    \/ /\ \E id \in Ids, df \in BOOLEAN : DeleteAnalysis(id, df)
       /\ UNCHANGED <<concVars, carouselVars>>
    \/ /\ \E cf \in BOOLEAN : ClearAllData(cf)
       /\ UNCHANGED <<concVars, carouselVars>>
    \/ /\ \E cf \in BOOLEAN : GetStats(cf)
       /\ UNCHANGED <<concVars, carouselVars>>
    \/ /\ \E gf \in BOOLEAN : GetAnalytics(gf)
       /\ UNCHANGED <<concVars, carouselVars>>
    \/ /\ \E fmt \in {"json", "csv"}, gf \in BOOLEAN : ExportData(fmt, gf)
       /\ UNCHANGED <<concVars, carouselVars>>
    \/ /\ \E a \in ImportInputs :
             \E af, sf \in SUBSET (1..Len(a)) : ImportData(a, af, sf)
       /\ UNCHANGED <<concVars, carouselVars>>
    \/ /\ \E d \in LogData, af, sf \in BOOLEAN : logSpeciesAnalysis(d, af, sf)
       /\ UNCHANGED <<concVars, carouselVars>>

Spec == Init /\ [][Next]_vars

-----------------------------------------------------------------------------
(* The read operations over a store that earlier sessions have filled *)

MaxLen == 3

QueryPayloads ==
    {speciesPayload(FullData),
     speciesPayload([FullData EXCEPT !.species = "Pine", !.confidence = 92]),
     speciesPayload(EmptyData),
     treeCountPayload(EmptyData),
     pathPayload(FullData)}

QueryDates == {Today - 1, Today}

QueryRecords == {Spread(p, Prop("date", d)) : p \in QueryPayloads, d \in QueryDates}

\* the records as the store holds them: keyed 1, 2, ... and stamped
Keyed(s) == [i \in 1..Len(s) |-> Spread(Spread(Prop("id", i), s[i]), Stamps)]

QueryStores ==
    {Keyed(s) : s \in UNION {[1..n -> QueryRecords] : n \in 0..MaxLen}}

QueryFilters ==
    {NoFilters,
     [NoFilters EXCEPT !.type = "species"],
     [NoFilters EXCEPT !.type = "path"],
     [NoFilters EXCEPT !.species = "Oak"],
     [NoFilters EXCEPT !.minConfidence = 90],
     [NoFilters EXCEPT !.startDate = Today],
     [NoFilters EXCEPT !.endDate = Today - 1],
     [NoFilters EXCEPT !.type = "species", !.minConfidence = 90],
     [NoFilters EXCEPT !.startDate = Today - 1, !.endDate = Today, !.species = "Pine"]}

\* the page has loaded: the primary store is open over the records, or the
\* session is in fallback mode over them (the seeded samples among the cases)
QueryInit ==
    /\ clock = T0
    /\ req = "none"
    /\ awaiting = FALSE
    /\ domLoaded = TRUE
    /\ loggerDb = TRUE
    /\ nUpdates = 0
    /\ \E mode \in {"open", "null"} :
          \E s \in QueryStores \cup (IF mode = "null" THEN {sampleData} ELSE {}) :
             /\ db = mode
             /\ isSupported = (mode = "open")
             /\ idbExists = (mode = "open")
             /\ initPromise = IF mode = "open" THEN "resolved" ELSE "rejected"
             /\ idb = IF mode = "open" THEN s ELSE <<>>
             /\ keyGen = IF mode = "open" THEN Len(s) + 1 ELSE 1
             /\ ls = IF mode = "open" THEN LsKey("absent", <<>>) ELSE LsKey("ok", s)
    /\ last = Ret("init", "none", "ok", "", 0, <<>>)
    /\ NoBurst
    /\ NoCarousel

\* one read per run: a read leaves the stores as they are, so a later read
\* sees what the first one saw
QueryNext ==
    \/ /\ last.op = "init"
       /\ \E f \in QueryFilters, gf \in BOOLEAN : GetAnalyses(f, gf)
       /\ UNCHANGED <<concVars, carouselVars>>
    \/ /\ last.op = "init"
       /\ \E gf \in BOOLEAN : GetAnalytics(gf)
       /\ UNCHANGED <<concVars, carouselVars>>
    \/ /\ last.op = "init"
       /\ \E fmt \in {"json", "csv"}, gf \in BOOLEAN : ExportData(fmt, gf)
       /\ UNCHANGED <<concVars, carouselVars>>

QuerySpec == QueryInit /\ [][QueryNext]_vars

-----------------------------------------------------------------------------
(* The five logger methods, before and after the page has loaded *)

LogTypes == {"survey"}

\* what a caller passes: nothing, everything, or a part
PartData == [EmptyData EXCEPT !.species = "Pine", !.treeCount = 7, !.efficiency = 40]

LoggerData == {EmptyData, FullData, PartData}

\* the page before DOMContentLoaded (no database attached to the logger), with
\* the primary store open over one record, or in fallback mode over the seeded
\* samples or over a payload that does not parse
LoggerInit ==
    /\ clock = T0
    /\ req = "none"
    /\ awaiting = FALSE
    /\ nUpdates = 0
    /\ \E mode \in {"unloaded", "open", "null"} :
          /\ domLoaded = (mode # "unloaded")
          /\ loggerDb = (mode # "unloaded")
          /\ db = IF mode = "open" THEN "open" ELSE "null"
          /\ isSupported = (mode # "null")
          /\ idbExists = (mode = "open")
          /\ initPromise = CASE mode = "unloaded" -> "none"
                             [] mode = "open" -> "resolved"
                             [] mode = "null" -> "rejected"
          /\ idb = IF mode = "open" THEN Keyed(<<speciesPayload(FullData)>>) ELSE <<>>
          /\ keyGen = IF mode = "open" THEN 2 ELSE 1
          /\ ls \in CASE mode = "unloaded" -> {LsKey("absent", <<>>)}
                      [] mode = "open" -> {LsKey("absent", <<>>), LsKey("corrupt", <<>>)}
                      [] mode = "null" -> {LsKey("ok", sampleData), LsKey("corrupt", <<>>)}
    /\ last = Ret("init", "none", "ok", "", 0, <<>>)
    /\ NoBurst
    /\ NoCarousel

LoggerNext ==
    \/ /\ Tick
       /\ UNCHANGED <<concVars, carouselVars>>
    \/ /\ \E d \in LoggerData, af, sf \in BOOLEAN : logSpeciesAnalysis(d, af, sf)
       /\ UNCHANGED <<concVars, carouselVars>>
    \/ /\ \E d \in LoggerData, af, sf \in BOOLEAN : logTreeCountAnalysis(d, af, sf)
       /\ UNCHANGED <<concVars, carouselVars>>
    \/ /\ \E d \in LoggerData, af, sf \in BOOLEAN : logPathAnalysis(d, af, sf)
       /\ UNCHANGED <<concVars, carouselVars>>
    \/ /\ \E d \in LoggerData, af, sf \in BOOLEAN : logGreenCoverAnalysis(d, af, sf)
       /\ UNCHANGED <<concVars, carouselVars>>
    \/ /\ \E t \in LogTypes, d \in LoggerData, af, sf \in BOOLEAN : logAnalysis(t, d, af, sf)
       /\ UNCHANGED <<concVars, carouselVars>>

LoggerSpec == LoggerInit /\ [][LoggerNext]_vars

-----------------------------------------------------------------------------
(* Claims *)

StoreOps == {"create", "getAll", "getById", "update", "delete", "clear",
             "analytics", "stats", "export", "import"}

\* the session is in fallback-mode: the page-load handler's catch block has run
FallbackMode == domLoaded /\ ~isSupported

\* the records of the store the session currently reads from
ActiveStore == IF db = "null" THEN LsParse(ls) ELSE idb

\* C1: in fallback-mode every store call is served from the fallback store and
\* ends without an error caused by the missing primary database.
C1_FallbackServesEveryCall ==
    (FallbackMode /\ db = "null" /\ last.op \in StoreOps)
        => (last.route = "fallback" /\ last.err # "TypeError")

\* C2: in primary mode the primary store's error is never what the caller of a
\* store call receives; the fallback operation's outcome is.
C2_PrimaryErrorNeverDelivered ==
    (db = "open" /\ last.op \in StoreOps) => last.err # "PrimaryError"

\* C3: a call that failed on the primary store and was rerouted to the fallback
\* store leaves the primary handle and the fallback-mode flag as they were, the
\* handle still open for the next call.
C3_PerCallKeepsMode ==
    [][last'.route = "percall"
          => (db' = db /\ isSupported' = isSupported /\ db' = "open")]_vars

C3_Witness ==
    /\ last.op = "create" /\ last.route = "percall" /\ last.res = "ok"
    /\ db = "open" /\ isSupported
    /\ Len(LsParse(ls)) > 0

\* C4: once the page-load initialisation has failed, the primary handle is null
\* in every later state (an explicit init() call is refused in fallback-mode,
\* so none can re-open it).
C4_FallbackModeSticky == FallbackMode => db = "null"

\* C5: an open request that is blocked ends the init() call in a failure.
C5_BlockedEndsInFailure == req = "blocked" => initPromise = "rejected"

\* C6: no two records of the active store have the same id.
C6_UniqueIds ==
    \A i, j \in 1..Len(ActiveStore) :
        i # j => ActiveStore[i].v["id"] # ActiveStore[j].v["id"]

\* C7: after a logger method has returned an id, an unfiltered getAll returns
\* exactly one record with that id, and its fields are the logger's payload.
C7_LoggedRecordListedOnce ==
    (last.op = "logSpecies" /\ last.res = "ok") =>
        LET all == getAnalyses(Stores, NoFilters, FALSE).out
            hits == {i \in 1..Len(all) : all[i].v["id"] = last.val}
        IN  /\ Cardinality(hits) = 1
            /\ \A i \in hits : \A f \in last.out[1].keys :
                   all[i].v[f] = last.out[1].v[f]

PayloadKeys == {"date", "type", "species", "confidence", "image", "metadata"}

WholeCreate(rec, payload) ==
    /\ rec.keys = PayloadKeys \cup {"id", "createdAt", "updatedAt"}
    /\ \A f \in PayloadKeys : rec.v[f] = payload.v[f]
    /\ rec.v["createdAt"] = clock /\ rec.v["updatedAt"] = clock

WholeUpdate(rec, old) ==
    /\ rec.keys = old.keys
    /\ \E u \in Patches :
          \A f \in Fields :
              rec.v[f] = IF f = "updatedAt" THEN clock
                         ELSE IF f \in u.keys THEN u.v[f] ELSE old.v[f]

C8_Step ==
    clock' = clock =>       \* a step of an operation, not of the clock
    /\ (last'.op \in {"create", "update", "logSpecies"} /\ last'.res \in {"error", "false"})
          => (idb' = idb /\ ls' = ls)
    /\ (last'.op = "create" /\ last'.res = "ok" /\ last'.route = "primary")
          => /\ ls' = ls
             /\ \E rec \in Range(idb') :
                   /\ WholeCreate(rec, speciesPayload(FullData))
                   /\ rec.v["id"] = last'.val
                   /\ ~IdbHas(idb, rec.v["id"])
                   /\ idb' = InsertByKey(idb, rec)
    /\ (last'.op = "create" /\ last'.res = "ok" /\ last'.route # "primary")
          => /\ idb' = idb
             /\ ls'.state = "ok"
             /\ WholeCreate(Last(ls'.items), speciesPayload(FullData))
             /\ Last(ls'.items).v["id"] = last'.val
             /\ ls'.items = Append(LsParse(ls), Last(ls'.items))
    /\ (last'.op = "update" /\ last'.res = "ok")
          => /\ ls' = ls
             /\ \E old \in Range(idb), rec \in Range(idb') :
                   /\ old.v["id"] = last'.val
                   /\ WholeUpdate(rec, old)
                   /\ idb' = InsertByKey(idb, rec)

\* C8: a create or update that reports failure leaves both stores as they
\* were; one that reports success has stored the whole record: every field of
\* the payload with id and both timestamps for a create, every field of the
\* record it patched for an update, and nothing else in the store has changed.
C8_AllOrNothing == [][C8_Step]_vars

C8_Witness ==
    /\ last.op = "update" /\ last.res = "ok"
    /\ \E rec \in Range(idb) :
          /\ rec.v["confidence"] = 50 /\ rec.v["type"] = "species"
          /\ rec.v["updatedAt"] > rec.v["createdAt"]

C9_Step ==
    /\ \A r \in Range(idb), q \in Range(idb') :
          r.v["id"] = q.v["id"] => q.v["createdAt"] = r.v["createdAt"]
    /\ \A i \in 1..Len(LsParse(ls)) :
          i <= Len(LsParse(ls')) =>
              LsParse(ls')[i].v["createdAt"] = LsParse(ls)[i].v["createdAt"]
    /\ \A q \in Range(idb') \cup Range(LsParse(ls')) :
          q.v["updatedAt"] >= q.v["createdAt"]

\* C9: a stored record's createdAt never changes, whatever is patched onto the
\* record, and its updatedAt is never before its createdAt.
C9_CreatedAtImmutable == [][C9_Step]_vars

C10_Step ==
    (last'.op = "update" /\ last'.res = "ok" /\ clock' = clock) =>
        /\ Len(idb') = Len(idb)
        /\ \A r \in Range(idb) : r.v["id"] # last'.val => r \in Range(idb')
        /\ \E u \in Patches :
              LET old == IdbGet(idb, last'.val)
                  new == IdbGet(idb', last'.val)
              IN  /\ IdbHas(idb', last'.val)
                  /\ \A f \in Fields \ {"updatedAt"} :
                        new.v[f] = IF f \in u.keys THEN u.v[f] ELSE old.v[f]
                  /\ new.v["updatedAt"] >= old.v["updatedAt"]
                  /\ last'.out = <<new>>

\* C10: update(id, patch) of an existing record changes, in the record with that
\* id, the fields the patch names and updatedAt (which does not go back), leaves
\* every other record as it was, and returns the record as stored.
C10_UpdateChangesOnlyPatch == [][C10_Step]_vars

-----------------------------------------------------------------------------
(* Point reads and updates of absent ids *)

ActiveIds == {ActiveStore[i].v["id"] : i \in 1..Len(ActiveStore)}

\* the page-load handler has run to its end
Loaded == domLoaded /\ ~awaiting

C11_Step ==
    (Loaded /\ last'.op = "update" /\ clock' = clock /\ last'.val \notin ActiveIds) =>
        /\ last'.res = "error"
        /\ last'.err \in {"NotFound", "PrimaryError"}
        /\ idb' = idb
        /\ ls' = ls

\* C11: once the page has loaded, update(id, patch) with an id that is not in the store fails with NotFound
\* (or with the engine's own error), creates no record and leaves the store as it
\* was.
C11_UpdateAbsentNotFound == [][C11_Step]_vars

\* C12: with the primary store open and its get request succeeding, getById(id)
\* returns the stored record when one with that id exists and fails with NotFound
\* when none does, in particular after delete(id).
C12_GetByIdRecordOrNotFound ==
    (last.op = "getById" /\ db = "open" /\ last.err # "PrimaryError") =>
        IF IdbHas(idb, last.val)
        THEN last.res = "ok" /\ last.out = <<IdbGet(idb, last.val)>>
        ELSE last.res = "error" /\ last.err = "NotFound"

\* C20: once the page has loaded, a fallback-store operation that finds the key-value store unavailable or
\* its payload invalid raises CorruptState: the caller never receives a result,
\* empty or partial, from it, and the payload stays as it was.
C20_CorruptStateRaised ==
    [][(Loaded /\ clock' = clock /\ last'.route \in {"fallback", "percall"} /\ ~LsReadable(ls)) =>
           (last'.res \in {"error", "false"} /\ ls' = ls)]_vars

-----------------------------------------------------------------------------
(* Listing and filtering *)

\* the records of the store that served the latest call
Serving == IF last.route = "primary" THEN idb ELSE LsParse(ls)

\* every predicate the filters supply holds of record a
Satisfies(a, f) ==
    /\ f.startDate # 0 => a.v["date"] >= f.startDate
    /\ f.endDate # 0 => a.v["date"] <= f.endDate
    /\ f.type # "" => a.v["type"] = f.type
    /\ f.species # "" => a.v["species"] = f.species
    /\ f.minConfidence # 0 => a.v["confidence"] >= f.minConfidence

\* C13: getAll(filter) returns exactly the stored records that satisfy the
\* filter, newest date first, records of equal date in their store order.
C13_GetAllFilteredNewestFirst ==
    (last.op = "getAll" /\ last.res = "ok") =>
        LET sel == {i \in 1..Len(Serving) : Satisfies(Serving[i], last.val)}
        IN  /\ Len(last.out) = Cardinality(sel)
            /\ \E p \in [1..Len(last.out) -> sel] :
                  /\ \A j \in 1..Len(last.out) : last.out[j] = Serving[p[j]]
                  /\ \A j, k \in 1..Len(last.out) :
                        j < k => \/ Serving[p[j]].v["date"] > Serving[p[k]].v["date"]
                                 \/ /\ Serving[p[j]].v["date"] = Serving[p[k]].v["date"]
                                    /\ p[j] < p[k]

\* a listing that dropped a record, reordered the store by date and kept a tie
C13_Witness ==
    /\ last.op = "getAll" /\ last.res = "ok"
    /\ Len(last.out) = 2 /\ Len(Serving) = 3
    /\ last.out[1].v["date"] = last.out[2].v["date"]
    /\ last.val.type = "species"
    /\ Serving[1].v["type"] = "species" /\ Serving[2].v["type"] = "path"
    /\ Serving[1].v["species"] # Serving[3].v["species"]

\* the orders in which the five predicates can be applied
Orders == {o \in [1..5 -> 1..5] : \A i, j \in 1..5 : o[i] = o[j] => i = j}

-----------------------------------------------------------------------------
(* Analytics *)

\* the number of records of s whose field f is x
Occurrences(s, f, x) == Cardinality({i \in 1..Len(s) : s[i].v[f] = x})

\* the species of the records of s, null and undefined apart
SpeciesOf(s) == {s[i].v["species"] : i \in 1..Len(s)} \ {"null", "undefined"}

\* the three records of 2025-01-13, -14 and -15 with types species, path, species
ThreeDayScenario ==
    /\ Len(Serving) = 3
    /\ {<<Serving[i].v["date"], Serving[i].v["type"]>> : i \in 1..3} =
          {<<13, "species">>, <<14, "path">>, <<15, "species">>}

\* C15: getAnalytics reports totalAnalyses equal to the number of stored records,
\* speciesCount equal to the number of distinct non-null species and
\* analysesByType equal to the per-type counts; for the three records of
\* 2025-01-13, -14, -15 with types species, path, species that is 3, one or two
\* species, and species 2, path 1.
C15_AnalyticsCounts ==
    (last.op = "analytics" /\ last.res = "ok") =>
        LET A == last.out[1]
        IN  /\ A.totalAnalyses = Len(Serving)
            /\ A.speciesCount = Cardinality(SpeciesOf(Serving))
            /\ DOMAIN A.analysesByType = {Serving[i].v["type"] : i \in 1..Len(Serving)}
            /\ \A t \in DOMAIN A.analysesByType :
                  A.analysesByType[t] = Occurrences(Serving, "type", t)
            /\ ThreeDayScenario =>
                  /\ A.totalAnalyses = 3
                  /\ A.speciesCount \in {1, 2}
                  /\ A.analysesByType = [t \in {"species", "path"} |->
                                            IF t = "species" THEN 2 ELSE 1]

\* the analytics of the three-day scenario, with its two species
C15_Witness ==
    /\ last.op = "analytics" /\ last.res = "ok"
    /\ ThreeDayScenario
    /\ last.out[1].speciesCount = 2

\* the position in s of the first record of species x
FirstOf(s, x) == CHOOSE i \in 1..Len(s) : s[i].v["species"] = x /\ \A j \in 1..(i - 1) : s[j].v["species"] # x

\* the species of s that occur most often
MostFrequent(s) ==
    {x \in SpeciesOf(s) : \A y \in SpeciesOf(s) : Occurrences(s, "species", x) >= Occurrences(s, "species", y)}

\* C16 as stated: mostCommonSpecies is the species with the most occurrences, null
\* when no record has a species; of several with the same count it is the one
\* met first in the date-descending sequence.
C16_TieFirstEncountered ==
    (last.op = "analytics" /\ last.res = "ok") =>
        LET A == last.out[1]
            L == A.recentAnalyses
        IN  IF SpeciesOf(L) = {} THEN A.mostCommonSpecies = "null"
            ELSE /\ A.mostCommonSpecies \in MostFrequent(L)
                 /\ \A x \in MostFrequent(L) : FirstOf(L, A.mostCommonSpecies) <= FirstOf(L, x)

\* C16, amended: mostCommonSpecies is a species with the most occurrences, null
\* when no record has a species; of several with the same count it is the one
\* whose first record comes last in the date-descending sequence.
C16_TieLastEncountered ==
    (last.op = "analytics" /\ last.res = "ok") =>
        LET A == last.out[1]
            L == A.recentAnalyses
        IN  IF SpeciesOf(L) = {} THEN A.mostCommonSpecies = "null"
            ELSE /\ A.mostCommonSpecies \in MostFrequent(L)
                 /\ \A x \in MostFrequent(L) : FirstOf(L, A.mostCommonSpecies) >= FirstOf(L, x)

\* analytics over two species of equal count, the reported one met second
C16_Witness ==
    /\ last.op = "analytics" /\ last.res = "ok"
    /\ Cardinality(MostFrequent(last.out[1].recentAnalyses)) = 2
    /\ last.out[1].mostCommonSpecies # last.out[1].recentAnalyses[1].v["species"]
    /\ Truthy(last.out[1].recentAnalyses[1].v["species"])

-----------------------------------------------------------------------------
(* CSV export *)

\* the value of an optional field of record a is missing or null
Missing(x) == x \in {NullNum, Filler("confidence")}

\* C19: exportData("csv") produces a header line of eight names, then one line
\* per record in getAll order, each of eight cells that start with the id, date
\* and type and end with createdAt; the species, confidence, greenCover and
\* treeCount cells are empty exactly when the field is missing or null.
C19_CsvCellsEmptyIffMissing ==
    (last.op = "export" /\ last.val = "csv" /\ last.res = "ok") =>
        LET C == last.out[1]
            L == SortByDateDesc(Serving)
        IN  /\ Len(C.header) = 8
            /\ Len(C.lines) = Len(L)
            /\ \A i \in 1..Len(L) :
                  /\ Len(C.lines[i]) = 8
                  /\ C.lines[i][1] = Cell(L[i].v["id"])
                  /\ C.lines[i][2] = Cell(L[i].v["date"])
                  /\ C.lines[i][3] = Cell(L[i].v["type"])
                  /\ C.lines[i][8] = Cell(L[i].v["createdAt"])
                  /\ C.lines[i][4].empty <=> L[i].v["species"] \in {"null", "undefined"}
                  /\ C.lines[i][5].empty <=> Missing(L[i].v["confidence"])
                  /\ C.lines[i][6].empty <=> Missing(MetaProp(L[i], "greenCover"))
                  /\ C.lines[i][7].empty <=> Missing(MetaProp(L[i], "treeCount"))

-----------------------------------------------------------------------------
(* Import *)

\* the records of the store the session reads from, after the step
ActiveStoreNext == IF db = "null" THEN LsParse(ls') ELSE idb'

C17_Step ==
    (/\ Loaded /\ last'.op = "import" /\ clock' = clock
     /\ Exported # <<>>
     /\ [k \in 1..Len(last'.out) |-> last'.out[k].rec] = Exported
     /\ \A k \in 1..Len(last'.out) : last'.out[k].ok) =>
        /\ last'.val = Len(Exported)
        /\ Len(ActiveStoreNext) = Len(ActiveStore) + Len(Exported)
        /\ \A k \in 1..Len(Exported) :
              \E i \in 1..Len(ActiveStoreNext) :
                 LET n == ActiveStoreNext[i]
                 IN  /\ n.v["id"] \notin ActiveIds
                     /\ \A f \in PayloadKeys : n.v[f] = Exported[k].v[f]
                     /\ n.v["createdAt"] = clock /\ n.v["updatedAt"] = clock

\* C17: once the page has loaded, importData(exportData("json"), "json"), every
\* create succeeding, returns
\* the number of exported records and adds to the store one new record per
\* exported record, equal to it in every field except id, createdAt and
\* updatedAt, which are newly generated (the exported id is not reused).
C17_JsonRoundTrip == [][C17_Step]_vars

C18_Step ==
    (last'.op = "import" /\ clock' = clock) =>
        LET done == {k \in 1..Len(last'.out) : last'.out[k].ok}
            stored == Range(idb') \cup Range(LsParse(ls'))
        IN  /\ last'.res = "ok"
            /\ last'.val = Len(last'.out)
            /\ (Len(idb') + Len(LsParse(ls'))) - (Len(idb) + Len(LsParse(ls))) =
                  Cardinality(done)
            /\ \A k \in done :
                  \E n \in stored :
                     /\ \A f \in PayloadKeys : n.v[f] = last'.out[k].rec.v[f]
                     /\ n.v["createdAt"] = clock

\* C18: importData creates the parsed records one by one; a record whose create
\* fails is skipped and the records after it are still created; the count it
\* returns is the number of parsed records, whatever failed.
C18_ImportSkipsFailures == [][C18_Step]_vars

\* an import of two records whose first create failed and whose second went in
C18_Witness ==
    /\ Loaded /\ db = "open"
    /\ last.op = "import" /\ last.val = 2 /\ Len(last.out) = 2
    /\ ~last.out[1].ok /\ last.out[2].ok
    /\ Len(idb) + Len(LsParse(ls)) = 1

-----------------------------------------------------------------------------
(* The logger *)

LogOps == {"logSpecies", "logTreeCount", "logPath", "logGreenCover", "logAnalysis"}

\* the records the step has added to the two stores
AddedByStep ==
    {r \in Range(idb') : r \notin Range(idb)} \cup
    {LsParse(ls')[i] : i \in (Len(LsParse(ls)) + 1)..Len(LsParse(ls'))}

C21_Step ==
    (last'.op \in LogOps /\ clock' = clock) =>
        /\ last'.res \in {"ok", "false"}
        /\ (~loggerDb \/ (db = "null" /\ ~LsReadable(ls))) => last'.res = "false"
        /\ last'.res = "false" => (idb' = idb /\ ls' = ls)
        /\ last'.res = "ok" =>
              /\ Cardinality(AddedByStep) = 1
              /\ \A r \in AddedByStep : r.v["id"] = last'.val
              /\ Len(idb') + Len(LsParse(ls')) = Len(idb) + Len(LsParse(ls)) + 1

TypeOf(method) ==
    CASE method = "logSpecies" -> "species"
      [] method = "logTreeCount" -> "count"
      [] method = "logPath" -> "path"
      [] method = "logGreenCover" -> "greencover"

\* the metadata fields a typed method writes
MetaOf(method) ==
    CASE method = "logSpecies" -> {"greenCover", "treeCount", "boundingBoxes", "processingTime"}
      [] method = "logTreeCount" -> {"treeCount", "greenCover", "processingTime", "algorithm"}
      [] method = "logPath" -> {"pathLength", "efficiency", "waypoints", "processingTime", "algorithm"}
      [] method = "logGreenCover" -> {"greenCover", "vegetationDensity", "processingTime", "algorithm"}

\* the caller left property k out
Omitted(data, k) == data[k] = EmptyData[k]

\* the documented default of metadata field k in a record of the method
DefaultOf(method, k) ==
    IF k = "algorithm" THEN "default"
    ELSE IF k = "treeCount" /\ method = "logTreeCount" THEN 0
    ELSE NullNum

C24_Step ==
    (last'.op \in LogOps \ {"logAnalysis"} /\ last'.res = "ok" /\ clock' = clock) =>
        \A r \in AddedByStep :
            LET method == last'.op
                data == last'.out[2]
            IN  /\ r.v["type"] = TypeOf(method)
                /\ method # "logSpecies" => r.v["species"] = "null"
                /\ (method = "logSpecies" /\ Omitted(data, "species")) => r.v["species"] = "null"
                /\ Omitted(data, "image") => r.v["image"] = "null"
                /\ Omitted(data, IF method = "logPath" THEN "efficiency" ELSE "confidence")
                      => r.v["confidence"] = NullNum
                /\ DOMAIN r.v["metadata"] = MetaOf(method)
                /\ \A k \in MetaOf(method) :
                      IF Omitted(data, k)
                      THEN r.v["metadata"][k] = DefaultOf(method, k)
                      ELSE r.v["metadata"][k] = data[k]

\* C24: a typed logger method stores its fixed type whatever the caller passes,
\* species null for the tree-count, path and green-cover methods, and for every
\* property the caller omits its default: null, 0 for the treeCount of a count
\* record, 'default' for algorithm.
C24_TypedDefaults == [][C24_Step]_vars

\* a stored tree-count record of a caller who passed a species and no algorithm
C24_Witness ==
    /\ last.op = "logTreeCount" /\ last.res = "ok"
    /\ last.out[2].species = "Pine" /\ last.out[2].algorithm = ""
    /\ \E r \in Range(idb) \cup Range(LsParse(ls)) :
          /\ r.v["id"] = last.val /\ r.v["type"] = "count"
          /\ r.v["species"] = "null" /\ r.v["metadata"].algorithm = "default"

-----------------------------------------------------------------------------
(* The two stores across a switch *)

\* sequence s is the beginning of sequence t
IsPrefix(s, t) == Len(s) <= Len(t) /\ SubSeq(t, 1, Len(s)) = s

C22_Step ==
    ((last'.op = "init" \/ last'.route = "percall") /\ clock' = clock) =>
        /\ idb' = idb
        /\ IsPrefix(LsParse(ls), LsParse(ls'))
        /\ \A i \in (Len(LsParse(ls)) + 1)..Len(LsParse(ls')) :
              LsParse(ls')[i] \notin Range(idb)

\* C22: a step of the initialisation (the switch to fallback-mode among them)
\* and a call served by per-call fallback leave every record of the primary
\* store and of the fallback store where it is, and what they add to the
\* fallback store is no record of the primary store.
C22_NoMigration == [][C22_Step]_vars

\* a create served by per-call fallback while the primary store holds a record
C22_Witness ==
    /\ last.op \in {"create", "logSpecies"} /\ last.route = "percall" /\ last.res = "ok"
    /\ Len(idb) >= 1 /\ Len(LsParse(ls)) >= 1
    /\ \A r \in Range(LsParse(ls)) : r \notin Range(idb)


-----------------------------------------------------------------------------
(* Creates issued back to back.  A call runs synchronously up to its first    *)
(* pending event: in fallback mode that is the whole localStorage write, on   *)
(* the open primary store it is the issue of the add request.  The engine     *)
(* settles the add requests one at a time in the order they were issued, and  *)
(* each onsuccess or onerror handler runs to its end as one task.             *)

MaxBurst == 3

ConcData == {FullData, PartData}

\* a getItem that answers with the payload of the time the request was issued
getItem_AtIssue(p, store) == p.seen

\* localStorage.getItem('ecoview_historical_data') of the fallback a request's
\* onerror handler runs: the payload at the time the handler runs
getItem(p, store) == store

\* the page is ready: the primary store is open over one record (the fallback
\* key empty or left filled by an earlier session), or the session is in
\* fallback mode over the seeded samples
ConcInit ==
    /\ clock = T0
    /\ req = "none"
    /\ awaiting = FALSE
    /\ domLoaded = TRUE
    /\ loggerDb = TRUE
    /\ nUpdates = 0
    /\ \E mode \in {"open", "null"} :
          /\ db = mode
          /\ isSupported = (mode = "open")
          /\ idbExists = (mode = "open")
          /\ initPromise = IF mode = "open" THEN "resolved" ELSE "rejected"
          /\ idb = IF mode = "open" THEN Keyed(<<speciesPayload(FullData)>>) ELSE <<>>
          /\ keyGen = IF mode = "open" THEN 2 ELSE 1
          /\ ls \in IF mode = "open"
                    THEN {LsKey("absent", <<>>), LsKey("ok", sampleData)}
                    ELSE {LsKey("ok", sampleData)}
    /\ last = Ret("init", "none", "ok", "", 0, <<>>)
    /\ pending = <<>>
    /\ burst = [idb |-> idb, ls |-> LsParse(ls), issued |-> 0, made |-> <<>>]
    /\ NoCarousel

\* a logger create up to its first pending event
Issue(method, analysisData, setFails) ==
    /\ burst.issued < MaxBurst
    /\ IF db = "null"
       THEN LET r == addAnalysisToLocalStorage(ls, analysisData, setFails)
            IN  /\ ls' = r.ls
                /\ burst' = [burst EXCEPT !.issued = @ + 1,
                                          !.made = IF r.ok
                                                   THEN Append(@, [rec |-> r.rec, store |-> "ls"])
                                                   ELSE @]
                /\ last' = Ret(method, "fallback", IF r.ok THEN "ok" ELSE "false", "",
                               r.id, <<>>)
                /\ UNCHANGED pending
       ELSE /\ ~setFails
            /\ pending' = Append(pending, [method |-> method,
                                           analysis |-> Spread(analysisData, Stamps),
                                           seen |-> ls,
                                           behind |-> Len(pending)])
            /\ burst' = [burst EXCEPT !.issued = @ + 1]
            /\ last' = Ret(method, "primary", "pending", "", 0, <<>>)
            /\ UNCHANGED ls
    /\ UNCHANGED <<ctl, idb, keyGen, clock, nUpdates>>

IssueSpecies(data, setFails) == Issue("logSpecies", speciesPayload(data), setFails)

IssueTreeCount(data, setFails) == Issue("logTreeCount", treeCountPayload(data), setFails)

\* the engine settles the oldest add request: onsuccess, or onerror and the
\* fallback write of the handler.  out holds the number of requests that were
\* in flight when this one was issued
Settle(addFails, setFails) ==
    /\ pending # <<>>
    /\ LET p == Head(pending)
           key == KeyOf(p.analysis, keyGen)
           put == IdbPut(idb, keyGen, p.analysis)
           r == addAnalysisToLocalStorage(getItem(p, ls), p.analysis, setFails)
       IN  IF addFails \/ IdbHas(idb, key)
           THEN /\ ls' = r.ls
                /\ burst' = [burst EXCEPT !.made = IF r.ok
                                                   THEN Append(@, [rec |-> r.rec, store |-> "ls"])
                                                   ELSE @]
                /\ last' = Ret(p.method, "percall", IF r.ok THEN "ok" ELSE "false", "",
                               r.id, <<p.behind>>)
                /\ UNCHANGED <<idb, keyGen>>
           ELSE /\ ~setFails
                /\ idb' = put.store
                /\ keyGen' = put.gen
                /\ burst' = [burst EXCEPT !.made = Append(@, [rec |-> IdbGet(put.store, put.key),
                                                              store |-> "idb"])]
                /\ last' = Ret(p.method, "primary", "ok", "", put.key, <<p.behind>>)
                /\ UNCHANGED ls
    /\ pending' = Tail(pending)
    /\ UNCHANGED <<ctl, clock, nUpdates>>

ConcNext ==
    \/ /\ Tick
       /\ UNCHANGED <<concVars, carouselVars>>
    \/ /\ \E d \in ConcData, sf \in BOOLEAN : IssueSpecies(d, sf)
       /\ UNCHANGED carouselVars
    \/ /\ \E d \in ConcData, sf \in BOOLEAN : IssueTreeCount(d, sf)
       /\ UNCHANGED carouselVars
    \/ /\ \E af, sf \in BOOLEAN : Settle(af, sf)
       /\ UNCHANGED carouselVars

ConcSpec == ConcInit /\ [][ConcNext]_vars

\* the records a burst has created in one of the stores, in the order of creation
MadeIn(store) ==
    LET m == SelectSeq(burst.made, LAMBDA x : x.store = store)
    IN  [i \in 1..Len(m) |-> m[i].rec]

\* C23: creates issued without waiting for each other do not interleave their
\* read-modify-write steps: at every point, and so once all of them have
\* completed, each store holds the records it held when the burst started
\* followed by every record created in it since, none lost and none overwritten
C23_BackToBackCreatesKept ==
    /\ idb = burst.idb \o MadeIn("idb")
    /\ LsParse(ls) = burst.ls \o MadeIn("ls")

\* three creates issued back to back have all completed, two of them by the
\* fallback of their onerror handlers, each issued while another was in flight
C23_Witness ==
    /\ pending = <<>>
    /\ burst.issued = MaxBurst
    /\ Len(burst.made) = MaxBurst
    /\ Len(MadeIn("ls")) >= 2
    /\ Len(MadeIn("idb")) >= 1
    /\ last.route = "percall" /\ last.res = "ok" /\ last.out = <<1>>

-----------------------------------------------------------------------------
(* The landing page's carousel.  Every run of initNatureCarousel makes a     *)
(* closure with its own currentSlide and autoPlayInterval, registers that    *)
(* closure's listeners on the shared elements and starts an interval timer.  *)
(* An event runs the listeners of every closure in the order they were       *)
(* registered.  The timers are followed by what they do, not by their        *)
(* delays: a live interval may fire at any time, an armed timeout likewise.  *)

MaxSlides == 3
MaxInits == 2
MaxHandles == 4

Slides == 0 .. nSlides - 1

\* document.querySelectorAll('.dot-nature'): one dot per slide
Dots == Slides

Updates == {"next", "prev", "dot", "autoplay"}

Event(ev, by, from, to) == [ev |-> ev, by |-> by, from |-> from, to |-> to]

\* updateCarousel(): classList.toggle('active', index === currentSlide) over the slides
updateCarousel(currentSlide) == {index \in Slides : index = currentSlide}

\* a nextSlide that does not wrap
nextSlide_NoWrap(currentSlide) == currentSlide + 1

\* nextSlide(): currentSlide = (currentSlide + 1) % slides.length
nextSlide(currentSlide) == (currentSlide + 1) % nSlides

\* prevSlide(): currentSlide = (currentSlide - 1 + slides.length) % slides.length
prevSlide(currentSlide) == (currentSlide - 1 + nSlides) % nSlides

Newest == Len(closures)

\* the page after DOMContentLoaded: initNatureCarousel has run once over a
\* carousel of one or more slides, whose 'active' classes are the markup's
CarouselInit ==
    /\ db = "null"
    /\ isSupported = TRUE
    /\ req = "none"
    /\ initPromise = "none"
    /\ awaiting = FALSE
    /\ domLoaded = TRUE
    /\ loggerDb = FALSE
    /\ idbExists = FALSE
    /\ idb = <<>>
    /\ keyGen = 1
    /\ ls = LsKey("absent", <<>>)
    /\ clock = T0
    /\ nUpdates = 0
    /\ last = Ret("none", "none", "ok", "", 0, <<>>)
    /\ NoBurst
    /\ nSlides \in 1..MaxSlides
    /\ closures = <<[currentSlide |-> 0, autoPlayInterval |-> 1]>>
    /\ intervals = {[handle |-> 1, closure |-> 1]}
    /\ handles = 1
    /\ hover = FALSE
    /\ resizeTimer = FALSE
    /\ active \in SUBSET Slides
    /\ shown = Event("init", 1, 0, 0)

\* a click: the listener of every closure moves that closure's currentSlide
\* (to moved[c]) and runs updateCarousel; the page shows the update of the last one
Click(ev, moved) ==
    /\ closures' = [c \in DOMAIN closures |->
                       [closures[c] EXCEPT !.currentSlide = moved[c]]]
    /\ active' = updateCarousel(closures'[Newest].currentSlide)
    /\ shown' = Event(ev, Newest, closures[Newest].currentSlide,
                      closures'[Newest].currentSlide)
    /\ UNCHANGED <<nSlides, intervals, handles, hover, resizeTimer>>

NextClick == Click("next", [c \in DOMAIN closures |-> nextSlide(closures[c].currentSlide)])

PrevClick == Click("prev", [c \in DOMAIN closures |-> prevSlide(closures[c].currentSlide)])

DotClick(index) == Click("dot", [c \in DOMAIN closures |-> index])

\* a live interval fires: nextSlide of the closure that started it
AutoPlay(t) ==
    /\ t \in intervals
    /\ closures' = [closures EXCEPT ![t.closure].currentSlide = nextSlide(@)]
    /\ active' = updateCarousel(closures'[t.closure].currentSlide)
    /\ shown' = Event("autoplay", t.closure, closures[t.closure].currentSlide,
                      closures'[t.closure].currentSlide)
    /\ UNCHANGED <<nSlides, intervals, handles, hover, resizeTimer>>

\* mouseenter on the container: every closure clears the interval its
\* autoPlayInterval holds
MouseEnter ==
    /\ ~hover
    /\ hover' = TRUE
    /\ intervals' = {t \in intervals :
                        \A c \in DOMAIN closures : closures[c].autoPlayInterval # t.handle}
    /\ shown' = Event("mouseenter", 0, 0, 0)
    /\ UNCHANGED <<nSlides, closures, handles, resizeTimer, active>>

\* mouseleave: every closure starts a new interval and keeps its handle
MouseLeave ==
    /\ hover
    /\ handles + Len(closures) <= MaxHandles
    /\ hover' = FALSE
    /\ closures' = [c \in DOMAIN closures |->
                       [closures[c] EXCEPT !.autoPlayInterval = handles + c]]
    /\ intervals' = intervals \cup
                       {[handle |-> handles + c, closure |-> c] : c \in DOMAIN closures}
    /\ handles' = handles + Len(closures)
    /\ shown' = Event("mouseleave", 0, 0, 0)
    /\ UNCHANGED <<nSlides, resizeTimer, active>>

\* resize: clearTimeout(resizeTimer); resizeTimer = setTimeout(..., 250)
Resize ==
    /\ Len(closures) < MaxInits
    /\ resizeTimer' = TRUE
    /\ shown' = Event("resize", 0, 0, 0)
    /\ UNCHANGED <<nSlides, closures, intervals, handles, hover, active>>

\* the timeout fires: initNatureCarousel() runs again
ResizeTimeout ==
    /\ resizeTimer
    /\ handles < MaxHandles
    /\ resizeTimer' = FALSE
    /\ closures' = Append(closures, [currentSlide |-> 0, autoPlayInterval |-> handles + 1])
    /\ intervals' = intervals \cup {[handle |-> handles + 1, closure |-> Len(closures) + 1]}
    /\ handles' = handles + 1
    /\ shown' = Event("init", Len(closures) + 1, 0, 0)
    /\ UNCHANGED <<nSlides, hover, active>>

CarouselNext ==
    \/ /\ NextClick
       /\ UNCHANGED <<dbVars, concVars>>
    \/ /\ PrevClick
       /\ UNCHANGED <<dbVars, concVars>>
    \/ /\ \E index \in Dots : DotClick(index)
       /\ UNCHANGED <<dbVars, concVars>>
    \/ /\ \E t \in intervals : AutoPlay(t)
       /\ UNCHANGED <<dbVars, concVars>>
    \/ /\ MouseEnter
       /\ UNCHANGED <<dbVars, concVars>>
    \/ /\ MouseLeave
       /\ UNCHANGED <<dbVars, concVars>>
    \/ /\ Resize
       /\ UNCHANGED <<dbVars, concVars>>
    \/ /\ ResizeTimeout
       /\ UNCHANGED <<dbVars, concVars>>

CarouselSpec == CarouselInit /\ [][CarouselNext]_vars

\* C25: while the pointer is over the carousel container no timer-driven
\* advance occurs: the latest event is never an auto-play advance made with
\* the pointer over the container
C25_PausedWhileHovered == shown.ev = "autoplay" => ~hover

=============================================================================
